---- MODULE Spec2Model ----
(***************************************************************************)
(* Model of evidently/v2/metrics/regression_performance_metrics.py:        *)
(* RegressionPerformanceMetrics.calculate and the distribution binner      *)
(* _me_mae_distr.                                                          *)
(*                                                                         *)
(* Numbers are integers; every quotient the code computes in floating      *)
(* point (bin edges, means) is kept as an exact fraction num/den.          *)
(* A missing cell (NaN) is the empty tuple, a present cell v is <<v>>.     *)
(* A missing object (Python None) is the record None.                      *)
(***************************************************************************)
EXTENDS Integers, Sequences, FiniteSets, TLC

VARIABLES
    pc,              \* "ready" | "calculated" | "binned"
    given,           \* the InputData as the caller built it (never written)
    current_data,    \* the caller's current table object, as it is now
    reference_data,  \* the caller's reference table object, as it is now
    analyzerFailed,  \* whether the external analyzer raised in this call
    calls,           \* the collaborators calculate has invoked, in order
    outcome,         \* "none" | "returned" | "raised"
    error,           \* the exception that reached the caller ("" if none)
    result,          \* the RegressionPerformanceMetricsResults, or None
    distr            \* what a direct _me_mae_distr call produced, or None

vars == <<pc, given, current_data, reference_data, analyzerFailed, calls,
          outcome, error, result, distr>>

----------------------------------------------------------------------------
(* Bounds of the model *)

\* most rows of an enumerated table
MaxRows == 3
\* target values of the enumerated tables are 1..MaxVal
MaxVal == 4
\* most bins the skewness term of Doane's rule adds
MaxSkewBins == 1
\* the wide tables have up to MaxTargetBins + WideExtra distinct targets
WideExtra == 2

----------------------------------------------------------------------------
(* Values *)

None == [none |-> TRUE]
NaN == <<>>
Num(v) == <<v>>
IsNaN(c) == c = NaN
Val(c) == c[1]
\* a Python list; a record, so that it compares with None
List(s) == [entries |-> s]

Abs(x) == IF x < 0 THEN -x ELSE x
Min(a, b) == IF a <= b THEN a ELSE b

MinOf(S) == CHOOSE x \in S : \A y \in S : x <= y
MaxOf(S) == CHOOSE x \in S : \A y \in S : x >= y

\* ColumnMapping.target / ColumnMapping.prediction
TargetCol == "target"
PredictionCol == "prediction"

Row(t, p) == [c \in {TargetCol, PredictionCol} |-> IF c = TargetCol THEN t ELSE p]
DataFrame(rows) == [columns |-> {TargetCol, PredictionCol}, rows |-> rows]

\* a row is valid when both target and prediction are present
ValidRow(r) == ~IsNaN(r[TargetCol]) /\ ~IsNaN(r[PredictionCol])
ValidIdx(df) == {i \in DOMAIN df.rows : ValidRow(df.rows[i])}

----------------------------------------------------------------------------
(* pandas / numpy / sklearn operations used by the source.  An operation   *)
(* that computes in several steps is written as one operator per step,     *)
(* each handing its values to the next.                                     *)

Failure(kind) == [failed |-> TRUE, error |-> kind]

\* the present values of column col
Present(df, col) ==
    {Val(df.rows[i][col]) : i \in {i \in DOMAIN df.rows : ~IsNaN(df.rows[i][col])}}

\* Series.nunique(dropna=True)
NUnique(df, col) == Cardinality(Present(df, col))

\* The bin edges of pd.cut(x, bins) for an integer `bins`, as fractions with
\* the common denominator den: nums[1] is the lowest edge, nums[j+1] the upper
\* edge of interval j.  The lowest edge is moved down by 0.1% of the range so
\* that the minimum falls into the first interval; a range of width zero is
\* widened by 0.1% of the value on both sides.
CutEdges(mn, mx, bins) ==
    IF mn = mx
    THEN [den  |-> 1000 * bins,
          nums |-> [j \in 1..(bins + 1) |->
                      bins * (IF mn # 0 THEN 1000 * mn - Abs(mn) ELSE -1)
                      + (j - 1) * (IF mn # 0 THEN 2 * Abs(mn) ELSE 2)]]
    ELSE [den  |-> 1000 * bins,
          nums |-> [j \in 1..(bins + 1) |->
                      IF j = 1
                      THEN 1000 * bins * mn - bins * (mx - mn)
                      ELSE 1000 * (bins * mn + (j - 1) * (mx - mn))]]

\* the interval (edge j, edge j+1] that holds the cell c, or NaN
CutCode(edges, bins, c) ==
    IF IsNaN(c) \/ \A j \in 1..bins : ~(edges.nums[j] < Val(c) * edges.den
                                       /\ Val(c) * edges.den <= edges.nums[j + 1])
    THEN NaN
    ELSE Num(MinOf({j \in 1..bins : edges.nums[j] < Val(c) * edges.den
                                    /\ Val(c) * edges.den <= edges.nums[j + 1]}))

CutWith(df, col, bins, edges) ==
    [failed |-> FALSE, error |-> "",
     bins   |-> bins,
     edges  |-> edges,
     codes  |-> [i \in DOMAIN df.rows |-> CutCode(edges, bins, df.rows[i][col])]]

\* pd.cut(df[col], bins): raises for bins < 1 and for an empty column
PdCut(df, col, bins) ==
    IF bins < 1 THEN Failure("ValueError: bins should be a positive integer")
    ELSE IF Len(df.rows) = 0 THEN Failure("ValueError: Cannot cut empty array")
    ELSE CutWith(df, col, bins,
                 CutEdges(MinOf(Present(df, col)), MaxOf(Present(df, col)), bins))

\* the least b with 2^b >= n
CeilLog2(n) == CHOOSE b \in 0..n : 2^b >= n /\ (b = 0 \/ 2^(b - 1) < n)

\* nb equal bins between lo2/2 and hi2/2, as fractions over 2*nb
LinEdges(nb, lo2, hi2) ==
    [failed |-> FALSE, error |-> "",
     bins |-> nb,
     den  |-> 2 * nb,
     nums |-> [j \in 1..(nb + 1) |-> nb * lo2 + (j - 1) * (hi2 - lo2)]]

\* The outer edges are the minimum lo and the maximum hi, widened by 0.5 each
\* way when they coincide.  Doane's rule gives
\* ceil(1 + log2(n) + log2(1 + |g1|/sg1)) bins when n > 2 and the data are
\* not constant, one bin otherwise; the skewness term is a real number >= 0
\* computed in floating point, kept here as `skew` extra bins.
DoaneEdges(n, lo, hi, skew) ==
    LinEdges(IF n > 2 /\ lo # hi THEN 1 + CeilLog2(n) + skew ELSE 1,
             2 * lo - (IF lo = hi THEN 1 ELSE 0),
             2 * hi + (IF lo = hi THEN 1 ELSE 0))

SeriesValues(data) == {Val(data[i]) : i \in DOMAIN data}

\* np.histogram_bin_edges(data, bins="doane"): a non-finite minimum or
\* maximum raises
HistogramBinEdges(data, skew) ==
    IF \E i \in DOMAIN data : IsNaN(data[i])
    THEN Failure("ValueError: autodetected range of [nan, nan] is not finite")
    ELSE IF Len(data) = 0
    THEN LinEdges(1, 0, 2)
    ELSE DoaneEdges(Len(data), MinOf(SeriesValues(data)), MaxOf(SeriesValues(data)), skew)

\* np.histogram(data, bins=edges)[0]: bin j is [edge j, edge j+1), the last
\* bin also holds its right edge
Histogram(data, edges) ==
    [j \in 1..edges.bins |->
        Cardinality({i \in DOMAIN data :
            /\ edges.nums[j] <= Val(data[i]) * edges.den
            /\ \/ Val(data[i]) * edges.den < edges.nums[j + 1]
               \/ j = edges.bins /\ Val(data[i]) * edges.den = edges.nums[j + 1]})]

\* the sum of f[i] over the index set S
RECURSIVE SumOver(_, _)
SumOver(f, S) ==
    IF S = {} THEN 0
    ELSE f[MinOf(S)] + SumOver(f, S \ {MinOf(S)})

AbsErr(r) == Abs(Val(r[TargetCol]) - Val(r[PredictionCol]))

\* sklearn mean_absolute_error over the rows idx of df: raises on no rows
\* and on a missing value
MeanAbsoluteError(df, idx) ==
    IF idx = {} THEN Failure("ValueError: Found array with 0 samples")
    ELSE IF \E i \in idx : ~ValidRow(df.rows[i]) THEN Failure("ValueError: Input contains NaN")
    ELSE [failed |-> FALSE, error |-> "",
          num |-> SumOver([i \in idx |-> AbsErr(df.rows[i])], idx),
          den |-> Cardinality(idx)]

----------------------------------------------------------------------------
(* _me_mae_distr *)

\* faulty variant: no copy: the local name is bound to the caller's own table
DfAlias(heap) == [heap |-> heap, ref |-> "caller"]

\* df.copy(): a new table object with the same contents.  The objects of one
\* call live in a small heap: "caller" is the argument, "copy" the new object.
DfCopy(heap) == [heap |-> [o \in {"caller", "copy"} |-> heap["caller"]], ref |-> "copy"]

\* df['target_binned'] = codes, written through the reference ref
SetColumn(heap, ref, col, codes) ==
    [heap EXCEPT ![ref] =
        [columns |-> @.columns \cup {col},
         rows    |-> [i \in DOMAIN @.rows |->
                        [c \in (DOMAIN @.rows[i]) \cup {col} |->
                            IF c = col THEN codes[i] ELSE @.rows[i][c]]]]]

\* min(count_uniq_values, 10)
MaxTargetBins == 10
\* faulty variant: the cap of ten bins is left out
TargetBinCountUncapped(count_uniq_values) == count_uniq_values
TargetBinCount(count_uniq_values) == Min(count_uniq_values, MaxTargetBins)

\* df[target] - df[prediction]
ErrorSeries(df) ==
    [i \in DOMAIN df.rows |->
        IF ValidRow(df.rows[i])
        THEN Num(Val(df.rows[i][TargetCol]) - Val(df.rows[i][PredictionCol]))
        ELSE NaN]

\* the rows of df whose target_binned is category j
GroupIdx(df, j) == {i \in DOMAIN df.rows : df.rows[i]["target_binned"] = Num(j)}

\* df.groupby('target_binned').apply(lambda x: mean_absolute_error(...)): the
\* function is applied to the rows of every category of the binned column,
\* the categories without rows included
GroupByApplyMae(df, bins) == [j \in 1..bins |-> MeanAbsoluteError(df, GroupIdx(df, j))]

\* df.target_binned.value_counts().sort_index(): one count per category,
\* zero counts included, in ascending interval order
ValueCountsSorted(df, bins) == [j \in 1..bins |-> Cardinality(GroupIdx(df, j))]

\* [(y, x) for x, y in zip(me_hist[0], me_hist[1])]
MeList(counts, edges) ==
    List([j \in 1..Min(Len(counts), Len(edges.nums)) |->
        [edge |-> [num |-> edges.nums[j], den |-> edges.den], count |-> counts[j]]])

\* [(idx, mae[idx], value) for idx, value in mae_hist.items()]
MaeList(mae, mae_hist, edges) ==
    List([j \in DOMAIN mae_hist |->
        [idx   |-> [bin |-> j, left |-> edges.nums[j], right |-> edges.nums[j + 1], den |-> edges.den],
         mae   |-> [num |-> mae[j].num, den |-> mae[j].den],
         count |-> mae_hist[j]]])

\* the call raised: what the caller gets, and the locals as they were
BinnerRaised(heap, kind, bins, cut, loc) ==
    [failed |-> TRUE, error |-> kind, df |-> heap["caller"],
     me |-> None, mae |-> None, bins |-> bins, cut |-> cut, local |-> loc]

\* lines 102-104: the counts per bin and the two lists returned
BinReturn(heap, loc, bins, cut, data, me_bins, mae) ==
    IF \E j \in 1..bins : mae[j].failed
    THEN BinnerRaised(heap, mae[MinOf({j \in 1..bins : mae[j].failed})].error, bins, cut, loc)
    ELSE [failed |-> FALSE, error |-> "", df |-> heap["caller"],
          me    |-> MeList(Histogram(data, me_bins), me_bins),
          mae   |-> MaeList(mae, ValueCountsSorted(loc, bins), cut.edges),
          bins  |-> bins,
          cut   |-> cut,
          local |-> loc]

\* lines 97-101: the histogram and the mean absolute error per bin
BinAggregate(heap, loc, bins, cut, data, me_bins) ==
    IF me_bins.failed THEN BinnerRaised(heap, me_bins.error, bins, cut, loc)
    ELSE BinReturn(heap, loc, bins, cut, data, me_bins, GroupByApplyMae(loc, bins))

\* lines 95-96: the error series and its histogram edges
BinErrors(heap, loc, bins, cut, skew) ==
    BinAggregate(heap, loc, bins, cut, ErrorSeries(loc),
                 HistogramBinEdges(ErrorSeries(loc), skew))

\* line 93: the binned column is written to the local table
BinAssign(heap, ref, bins, cut, skew) ==
    IF cut.failed THEN BinnerRaised(heap, cut.error, bins, None, heap[ref])
    ELSE BinErrors(SetColumn(heap, ref, "target_binned", cut.codes),
                   SetColumn(heap, ref, "target_binned", cut.codes)[ref], bins, cut, skew)

\* lines 92-93: the bin count and the quantization
BinQuantize(heap, ref, bins, skew) ==
    BinAssign(heap, ref, bins, PdCut(heap[ref], TargetCol, bins), skew)

\* line 91 onwards, c being what df.copy() gave
BinLocal(c, skew) ==
    BinQuantize(c.heap, c.ref, TargetBinCount(NUnique(c.heap[c.ref], TargetCol)), skew)

\* _me_mae_distr(df, column_mapping); skew is the skewness term of Doane's rule
MeMaeDistr(df, skew) ==
    IF df = None
    THEN BinnerRaised([o \in {"caller"} |-> None], "AttributeError: NoneType has no attribute copy",
                      0, None, None)
    ELSE BinLocal(DfCopy([o \in {"caller"} |-> df]), skew)

----------------------------------------------------------------------------
(* sklearn metrics computed by calculate itself *)

\* the validation sklearn applies to y_true and y_pred
CheckArrays(df) ==
    IF df = None THEN Failure("TypeError: NoneType object is not subscriptable")
    ELSE IF Len(df.rows) = 0 THEN Failure("ValueError: Found array with 0 samples")
    ELSE IF ValidIdx(df) # DOMAIN df.rows THEN Failure("ValueError: Input contains NaN")
    ELSE [failed |-> FALSE, error |-> ""]

SqErrSum(df) ==
    SumOver([i \in DOMAIN df.rows |-> AbsErr(df.rows[i])^2], DOMAIN df.rows)
TargetSum(df) ==
    SumOver([i \in DOMAIN df.rows |-> Val(df.rows[i][TargetCol])], DOMAIN df.rows)
TargetSqSum(df) ==
    SumOver([i \in DOMAIN df.rows |-> Val(df.rows[i][TargetCol])^2], DOMAIN df.rows)

\* 1 - SS_res / SS_tot as a fraction, res = n * SS_res and tot = n * SS_tot;
\* undefined (den = 0) for fewer than two samples; 1 or 0 when SS_tot = 0
R2Value(n, res, tot) ==
    IF n < 2 THEN [num |-> 0, den |-> 0]
    ELSE IF tot = 0 THEN [num |-> (IF res = 0 THEN 1 ELSE 0), den |-> 1]
    ELSE [num |-> tot - res, den |-> tot]

\* r2_score(y_true, y_pred)
R2Score(df) ==
    IF CheckArrays(df).failed
    THEN [failed |-> TRUE, error |-> CheckArrays(df).error, value |-> None]
    ELSE [failed |-> FALSE, error |-> "",
          value |-> R2Value(Len(df.rows), Len(df.rows) * SqErrSum(df),
                            Len(df.rows) * TargetSqSum(df) - TargetSum(df) * TargetSum(df))]

\* mean_squared_error(y_true, y_pred)
MeanSquaredError(df) ==
    IF CheckArrays(df).failed
    THEN [failed |-> TRUE, error |-> CheckArrays(df).error, value |-> None]
    ELSE [failed |-> FALSE, error |-> "",
          value |-> [num |-> SqErrSum(df), den |-> Len(df.rows)]]

----------------------------------------------------------------------------
(* The external analyzer (RegressionPerformanceAnalyzer) *)

\* a diagnostic of the analyzer whose value this model does not compute: it
\* is identified by its name and the rows it was computed over
Summary(name, df) == [stat |-> name, over |-> [i \in DOMAIN df.rows |-> df.rows[i]]]

SignedErr(r) == Val(r[TargetCol]) - Val(r[PredictionCol])

\* the metrics the analyzer reports for one dataset, over its valid rows idx
MetricsOver(df, idx) ==
    [mean_error          |-> [num |-> SumOver([i \in idx |-> SignedErr(df.rows[i])], idx),
                              den |-> Cardinality(idx)],
     mean_abs_error      |-> [num |-> SumOver([i \in idx |-> AbsErr(df.rows[i])], idx),
                              den |-> Cardinality(idx)],
     abs_error_max       |-> IF idx = {} THEN NaN
                             ELSE Num(MaxOf({AbsErr(df.rows[i]) : i \in idx})),
     mean_abs_perc_error |-> Summary("mean_abs_perc_error", df),
     error_std           |-> Summary("error_std", df),
     abs_error_std       |-> Summary("abs_error_std", df),
     abs_perc_error_std  |-> Summary("abs_perc_error_std", df),
     error_normality     |-> Summary("error_normality", df),
     underperformance    |-> Summary("underperformance", df)]

DatasetMetrics(df) == MetricsOver(df, ValidIdx(df))

\* analyzer.calculate(reference_data, current_data, column_mapping): metrics
\* of its reference_data, metrics of its current_data when one is given, and
\* an error-bias comparison only when both are given.  It may fail (fails).
AnalyzerCalculate(reference, current, fails) ==
    IF reference = None
    THEN [failed |-> TRUE, error |-> "AttributeError: NoneType has no attribute columns", value |-> None]
    ELSE IF fails
    THEN [failed |-> TRUE, error |-> "DelegateComputationError", value |-> None]
    ELSE [failed |-> FALSE, error |-> "",
          value |-> [reference_metrics |-> DatasetMetrics(reference),
                     current_metrics   |-> IF current = None THEN None ELSE DatasetMetrics(current),
                     error_bias        |-> IF current = None THEN None
                                           ELSE [reference |-> Summary("error_bias", reference),
                                                 current   |-> Summary("error_bias", current)]]]

----------------------------------------------------------------------------
(* RegressionPerformanceMetrics.calculate *)

\* faulty variant: the presence check is left out
CurrentMissingUnchecked(data) == FALSE

\* if data.current_data is None
CurrentMissing(data) == data.current_data = None

\* the two call shapes into the analyzer
AnalyzerStep(data, fails) ==
    IF data.reference_data = None
    THEN AnalyzerCalculate(data.current_data, None, fails)
    ELSE AnalyzerCalculate(data.reference_data, data.current_data, fails)

\* faulty variant: the binner falls back to the current table, as the analyzer call
\* does, when there is no reference table
ReferenceDistrFallback(data, skew) ==
    [called |-> TRUE,
     r |-> MeMaeDistr(IF data.reference_data # None THEN data.reference_data
                      ELSE data.current_data, skew)]

\* _me_mae_distr(data.reference_data, ...) if data.reference_data is not None
\* else (None, None)
ReferenceDistr(data, skew) ==
    IF data.reference_data # None
    THEN [called |-> TRUE, r |-> MeMaeDistr(data.reference_data, skew)]
    ELSE [called |-> FALSE,
          r |-> [failed |-> FALSE, error |-> "", df |-> None, me |-> None, mae |-> None]]

\* faulty variant: the statements after a failed call still run
InvokeKeepGoing(run, name, res) ==
    IF run.raised THEN [run EXCEPT !.calls = Append(@, name)]
    ELSE [calls |-> Append(run.calls, name), raised |-> res.failed, error |-> res.error]

\* One call statement of calculate.  run is the run so far, res what the
\* callee does.  calculate holds no try/except: once a callee has raised, no
\* later statement runs, and the exception is what the caller gets.
Invoke(run, name, res) ==
    IF run.raised THEN run
    ELSE [calls |-> Append(run.calls, name), raised |-> res.failed, error |-> res.error]

StepNames ==
    <<"analyzer.calculate", "r2_score", "mean_squared_error",
      "_me_mae_distr(current_data)", "_me_mae_distr(reference_data)">>

\* the RegressionPerformanceMetricsResults constructor call
Assemble(analyzer_results, r2_score_value, rmsa_score_value, cur, ref) ==
    [r2_score            |-> r2_score_value,
     rmsa                |-> rmsa_score_value,
     mean_error          |-> analyzer_results.reference_metrics.mean_error,
     me_distr            |-> cur.me,
     ref_me_distr        |-> ref.me,
     mean_abs_error      |-> analyzer_results.reference_metrics.mean_abs_error,
     mae_distr           |-> cur.mae,
     ref_mae_distr       |-> ref.mae,
     mean_abs_perc_error |-> analyzer_results.reference_metrics.mean_abs_perc_error,
     abs_error_max       |-> analyzer_results.reference_metrics.abs_error_max,
     error_std           |-> analyzer_results.reference_metrics.error_std,
     abs_error_std       |-> analyzer_results.reference_metrics.abs_error_std,
     abs_perc_error_std  |-> analyzer_results.reference_metrics.abs_perc_error_std,
     error_normality     |-> analyzer_results.reference_metrics.error_normality,
     underperformance    |-> analyzer_results.reference_metrics.underperformance,
     error_bias          |-> analyzer_results.error_bias]

\* lines 45-68 as a sequence of call statements
RunCalls(a, r2, mse, cur, ref) ==
    IF ref.called
    THEN Invoke(Invoke(Invoke(Invoke(Invoke([calls |-> <<>>, raised |-> FALSE, error |-> ""],
             StepNames[1], a), StepNames[2], r2), StepNames[3], mse), StepNames[4], cur),
             StepNames[5], ref.r)
    ELSE Invoke(Invoke(Invoke(Invoke([calls |-> <<>>, raised |-> FALSE, error |-> ""],
             StepNames[1], a), StepNames[2], r2), StepNames[3], mse), StepNames[4], cur)

\* what the caller gets after the calls of `run`, and the caller's two tables
\* afterwards
CalculateEnd(data, a, r2, mse, cur, ref, run) ==
    [outcome |-> IF run.raised THEN "raised" ELSE "returned",
     error   |-> run.error,
     calls   |-> run.calls,
     result  |-> IF run.raised THEN None
                 ELSE Assemble(a.value, r2.value, mse.value, cur, ref.r),
     current_data   |-> IF Len(run.calls) >= 4 THEN cur.df ELSE data.current_data,
     reference_data |-> IF Len(run.calls) >= 5 THEN ref.r.df ELSE data.reference_data]

CalculateBody(data, a, r2, mse, cur, ref) ==
    CalculateEnd(data, a, r2, mse, cur, ref, RunCalls(a, r2, mse, cur, ref))

\* calculate(data, metrics): the callees are given by what they do on this
\* data; fails is whether the analyzer fails, skewCur and skewRef the
\* skewness terms of the two binner calls
CalculateRun(data, fails, skewCur, skewRef) ==
    IF CurrentMissing(data)
    THEN [outcome |-> "raised", error |-> "ValueError: current dataset should be present",
          calls |-> <<>>, result |-> None,
          current_data |-> data.current_data, reference_data |-> data.reference_data]
    ELSE CalculateBody(data,
                       AnalyzerStep(data, fails),
                       R2Score(data.current_data),
                       MeanSquaredError(data.current_data),
                       MeMaeDistr(data.current_data, skewCur),
                       ReferenceDistr(data, skewRef))

----------------------------------------------------------------------------
(* Inputs *)

\* the cells a target takes: missing, or 1..MaxVal
TargetCell(k) == IF k = 0 THEN NaN ELSE Num(k)
\* the cells a prediction takes: missing, 1, or MaxVal
PredictionCell(k) == IF k = 0 THEN NaN ELSE IF k = 1 THEN Num(1) ELSE Num(MaxVal)

NumKinds == (MaxVal + 1) * 3
KindRow(k) == Row(TargetCell(k \div 3), PredictionCell(k % 3))

\* tables of up to MaxRows rows; row order plays no part in any computation
\* of the source, so one order per multiset of rows is enumerated
SmallTables ==
    UNION {{DataFrame([i \in 1..n |-> KindRow(s[i])]) :
              s \in {f \in [1..n -> 0..(NumKinds - 1)] : \A i \in 1..(n - 1) : f[i] <= f[i + 1]}} :
           n \in 0..MaxRows}

\* tables with many distinct targets 1..n: predictions equal to the target
\* ("exact"), constant ("const"), or constant with the last target far away
\* ("gap")
WideTable(n, pat) ==
    DataFrame([i \in 1..n |->
        LET t == IF pat = "gap" /\ i = n THEN 3 * n ELSE i
        IN  Row(Num(t), IF pat = "exact" THEN Num(t) ELSE Num(1))])

WideTables ==
    {WideTable(n, pat) : n \in (MaxTargetBins - 1)..(MaxTargetBins + WideExtra),
                         pat \in {"exact", "const", "gap"}}

CurrentTables == SmallTables \cup WideTables

\* the values the skewness term of Doane's rule can take for df: the term
\* enters only for more than two samples
SkewChoices(df) == IF df = None \/ Len(df.rows) <= 2 THEN {0} ELSE 0..MaxSkewBins

\* the reference tables: no row, one valid row, two and three valid rows, and
\* one with a missing target
ReferenceTables ==
    {DataFrame(<<>>),
     DataFrame(<<Row(Num(1), Num(1))>>),
     DataFrame(<<Row(Num(1), Num(MaxVal)), Row(Num(MaxVal), Num(1))>>),
     DataFrame(<<Row(Num(1), Num(1)), Row(Num(2), Num(MaxVal)), Row(Num(MaxVal), Num(1))>>),
     DataFrame(<<Row(NaN, Num(1)), Row(Num(1), Num(1))>>)}

----------------------------------------------------------------------------
(* State machine *)

\* the caller has built an InputData and has called nothing yet
Init ==
    /\ pc = "ready"
    /\ given \in [current_data : CurrentTables \cup {None},
                  reference_data : ReferenceTables \cup {None}]
    /\ current_data = given.current_data
    /\ reference_data = given.reference_data
    /\ analyzerFailed = FALSE
    /\ calls = <<>>
    /\ outcome = "none"
    /\ error = ""
    /\ result = None
    /\ distr = None

\* the state after calculate has ended as r says
CalculateDone(r, fails) ==
    /\ current_data' = r.current_data
    /\ reference_data' = r.reference_data
    /\ analyzerFailed' = (fails /\ Len(r.calls) >= 1)
    /\ calls' = r.calls
    /\ outcome' = r.outcome
    /\ error' = r.error
    /\ result' = r.result

\* one metric.calculate(data, metrics) call.  The metric keeps nothing between
\* calls but its analyzer, so one call per behaviour covers every call.
Calculate ==
    /\ pc = "ready"
    /\ \E fails \in BOOLEAN :
       \E skewCur \in (IF fails THEN {0} ELSE SkewChoices(current_data)),
          skewRef \in (IF fails THEN {0} ELSE SkewChoices(reference_data)) :
          CalculateDone(CalculateRun([current_data |-> current_data,
                                      reference_data |-> reference_data],
                                     fails, skewCur, skewRef), fails)
    /\ pc' = "calculated"
    /\ UNCHANGED <<given, distr>>

\* the state after _me_mae_distr has ended as r says
BinDone(r) ==
    /\ current_data' = r.df
    /\ distr' = r
    /\ outcome' = IF r.failed THEN "raised" ELSE "returned"
    /\ error' = r.error

\* a direct call _me_mae_distr(df, column_mapping) on the caller's current
\* table
BinDistributions ==
    /\ pc = "ready"
    /\ current_data # None
    /\ reference_data = None
    /\ \E skew \in SkewChoices(current_data) : BinDone(MeMaeDistr(current_data, skew))
    /\ pc' = "binned"
    /\ UNCHANGED <<given, reference_data, analyzerFailed, calls, result>>

Next == Calculate \/ BinDistributions

Spec == Init /\ [][Next]_vars

----------------------------------------------------------------------------
(* Properties *)

ValidCount(df) == Cardinality(ValidIdx(df))
HasMissing(df) == ValidIdx(df) # DOMAIN df.rows
CountSum(list) == SumOver([j \in DOMAIN list.entries |-> list.entries[j].count], DOMAIN list.entries)
Returned == pc = "calculated" /\ outcome = "returned"
Binned == pc = "binned"

\* C1: in every result record the reference-derived fields ref_me_distr,
\* ref_mae_distr and error_bias are all present when a reference dataset was
\* supplied and all None when it was not.
C1_ReferenceFieldsIffReference ==
    Returned =>
        IF given.reference_data # None
        THEN /\ result.ref_me_distr # None
             /\ result.ref_mae_distr # None
             /\ result.error_bias # None
        ELSE /\ result.ref_me_distr = None
             /\ result.ref_mae_distr = None
             /\ result.error_bias = None

C1_Witness == Returned /\ given.reference_data # None /\ result.ref_mae_distr # None

\* C2: calculate with current_data = None raises the "current dataset
\* should be present" error, with or without a reference dataset, before any
\* collaborator is called and without a result record.
C2_MissingCurrentRaisesFirst ==
    (pc = "calculated" /\ given.current_data = None) =>
        /\ outcome = "raised"
        /\ error = "ValueError: current dataset should be present"
        /\ calls = <<>>
        /\ result = None

C2_Witness ==
    /\ pc = "calculated"
    /\ given.current_data = None
    /\ given.reference_data # None
    /\ outcome = "raised"

\* C3: for a dataset with N >= 1 valid rows the signed-error histogram the
\* binner returns counts exactly N rows, and rows with a missing target or
\* prediction are left out instead of making the call fail.
C3_HistogramCountsValidRows ==
    (Binned /\ ValidCount(given.current_data) >= 1) =>
        /\ ~distr.failed => CountSum(distr.me) = ValidCount(given.current_data)
        /\ HasMissing(given.current_data) => ~distr.failed

\* C4: for a dataset with N >= 1 valid rows the counts of the binned_mae
\* entries the binner returns sum to exactly N, and rows with a missing target
\* or prediction are left out instead of making the call fail.
C4_BinnedMaeCountsValidRows ==
    (Binned /\ ValidCount(given.current_data) >= 1) =>
        /\ ~distr.failed => CountSum(distr.mae) = ValidCount(given.current_data)
        /\ HasMissing(given.current_data) => ~distr.failed

\* C5: for a non-empty dataset with d distinct non-missing targets the binner
\* asks for min(d, 10) target bins, and for d >= 1 the quantization has
\* exactly that many intervals of equal width over the observed range: the
\* upper edge of interval j is mn + j*(mx - mn)/k, and the lowest edge lies
\* just below the minimum (by 0.1% of the range), so that every present target
\* falls into one of the k intervals.
C5_BinCountIsMinOfDistinctAndTen ==
    (Binned /\ Len(given.current_data.rows) >= 1) =>
        LET df == given.current_data
            targets == {Val(df.rows[i][TargetCol]) :
                           i \in {i \in DOMAIN df.rows : ~IsNaN(df.rows[i][TargetCol])}}
            d == Cardinality(targets)
            k == IF d <= 10 THEN d ELSE 10
        IN  /\ distr.bins = k
            /\ d >= 1 =>
                LET e == distr.cut.edges
                    mn == MinOf(targets)
                    mx == MaxOf(targets)
                IN  /\ distr.cut # None
                    /\ Len(e.nums) = k + 1
                    /\ e.nums[1] < e.den * mn
                    /\ mn < mx => 1000 * e.nums[1] = e.den * (1000 * mn - (mx - mn))
                    /\ mn < mx => \A j \in 1..k :
                                     k * e.nums[j + 1] = e.den * (k * mn + j * (mx - mn))
                    /\ mn = mx => e.den * mx < e.nums[2]
                    /\ \A i \in DOMAIN df.rows :
                          ~IsNaN(df.rows[i][TargetCol]) =>
                              /\ distr.local.rows[i]["target_binned"] # NaN
                              /\ Val(distr.local.rows[i]["target_binned"]) \in 1..k

C5_Witness ==
    /\ Binned
    /\ ~distr.failed
    /\ NUnique(given.current_data, TargetCol) > 10
    /\ distr.bins = 10

\* C6: for a dataset without missing values the binner returns one binned_mae
\* entry for each target bin that holds a row and none for an empty bin, in
\* ascending interval order, each with the mean of |target - prediction| over
\* the rows of its bin and their number.
C6_EntriesAreTheNonEmptyBins ==
    (Binned /\ ValidCount(given.current_data) >= 1 /\ ~HasMissing(given.current_data)) =>
        /\ ~distr.failed
        /\ LET df == given.current_data
               members(j) == {i \in DOMAIN df.rows : distr.cut.codes[i] = Num(j)}
               filled == {j \in 1..distr.cut.bins : members(j) # {}}
               es == distr.mae.entries
           IN  /\ Len(es) = Cardinality(filled)
               /\ \A n \in DOMAIN es :
                     /\ es[n].idx.bin \in filled
                     /\ es[n].count = Cardinality(members(es[n].idx.bin))
                     /\ es[n].mae.den = es[n].count
                     /\ es[n].mae.num =
                            SumOver([i \in members(es[n].idx.bin) |->
                                        Abs(Val(df.rows[i][TargetCol]) - Val(df.rows[i][PredictionCol]))],
                                    members(es[n].idx.bin))
               /\ \A n \in 1..(Len(es) - 1) : es[n].idx.left < es[n + 1].idx.left

\* C7: for a dataset with at least one valid row whose non-missing targets
\* are all equal, the binner does not fail and returns exactly one binned_mae
\* entry, whose count is the number of valid rows.
C7_OneTargetValueOneEntry ==
    (/\ Binned
     /\ ValidCount(given.current_data) >= 1
     /\ NUnique(given.current_data, TargetCol) = 1) =>
        /\ ~distr.failed
        /\ Len(distr.mae.entries) = 1
        /\ distr.mae.entries[1].count = ValidCount(given.current_data)

\* C8: neither _me_mae_distr nor calculate changes the caller's tables: after
\* any call, successful or failed, they have the columns and rows they were
\* given with; the target_binned column exists on the binner's own copy only.
C8_CallerTablesUnchanged ==
    /\ current_data = given.current_data
    /\ reference_data = given.reference_data
    /\ (Binned /\ distr.local # None /\ distr.cut # None) =>
          /\ "target_binned" \in distr.local.columns
          /\ "target_binned" \notin current_data.columns
          /\ \A i \in DOMAIN current_data.rows :
                DOMAIN current_data.rows[i] = {TargetCol, PredictionCol}

C8_Witness ==
    /\ Binned
    /\ ~distr.failed
    /\ "target_binned" \in distr.local.columns
    /\ current_data = given.current_data

\* whether the collaborator called under this name fails on the given data
StepFails(name) ==
    IF name = StepNames[1] THEN analyzerFailed
    ELSE IF name = StepNames[2] THEN R2Score(given.current_data).failed
    ELSE IF name = StepNames[3] THEN MeanSquaredError(given.current_data).failed
    ELSE IF name = StepNames[4] THEN MeMaeDistr(given.current_data, 0).failed
    ELSE MeMaeDistr(given.reference_data, 0).failed

\* C9: a failure of the analyzer, of the R2/MSE computation or of a binner
\* call reaches the caller at that step: the failed call is the last call
\* calculate makes, no call is made twice, and there is no result record.
C9_FailurePropagates ==
    pc = "calculated" =>
        /\ \A i \in DOMAIN calls :
              StepFails(calls[i]) =>
                  /\ i = Len(calls)
                  /\ outcome = "raised"
                  /\ error # ""
                  /\ result = None
        /\ \A i, j \in DOMAIN calls : calls[i] = calls[j] => i = j
        /\ \A i \in DOMAIN calls : calls[i] = StepNames[i]
        /\ (outcome = "returned") <=> (result # None)

C9_Witness ==
    /\ pc = "calculated"
    /\ outcome = "raised"
    /\ Len(calls) = 5
    /\ StepFails(calls[5])
    /\ result = None

\* C10: in every result record the analyzer-derived scalars are the
\* analyzer's metrics of the current dataset, like r2_score, rmsa, me_distr
\* and mae_distr, whether or not a reference dataset was supplied.
C10_ScalarsDescribeCurrent ==
    Returned =>
        LET m == DatasetMetrics(given.current_data)
        IN  /\ result.mean_error = m.mean_error
            /\ result.mean_abs_error = m.mean_abs_error
            /\ result.mean_abs_perc_error = m.mean_abs_perc_error
            /\ result.abs_error_max = m.abs_error_max
            /\ result.error_std = m.error_std
            /\ result.abs_error_std = m.abs_error_std
            /\ result.abs_perc_error_std = m.abs_perc_error_std
            /\ result.error_normality = m.error_normality
            /\ result.underperformance = m.underperformance
            /\ result.r2_score = R2Score(given.current_data).value
            /\ result.rmsa = MeanSquaredError(given.current_data).value

====
